---- MODULE Spec2Model ----
(***************************************************************************)
(* PreGymTracker (src/src/App.tsx): the 30-day exercise tracker.  The      *)
(* model holds the component's React state (useState), its refs (useRef)   *)
(* and the browser's table of scheduled setInterval callbacks, and has one *)
(* action per user command and per interval callback.  React runs an       *)
(* event, the re-render and the effects the re-render triggers to          *)
(* completion before the next event, so every action below contains the    *)
(* handler AND the auto-advance effect (App.tsx 219-265) it triggers.      *)
(*                                                                         *)
(* Exercises are identified by their 0-based catalog index (names are      *)
(* unique, so name and index are interchangeable).  An interval callback   *)
(* is a closure: what matters of a scheduled interval is the `day` value   *)
(* that was current in the render that created it, so a scheduled interval *)
(* is modelled by that captured day and "no interval" (null) by 0.         *)
(***************************************************************************)
EXTENDS Integers, Sequences, FiniteSets, TLC

VARIABLES
    day,                  \* useState day (App.tsx 76)
    data,                 \* useState data: day -> exercise -> flag (77)
    currentExerciseIndex, \* useState (80)
    timers,               \* useState timers: elapsed seconds per exercise (81)
    running,              \* useState running: isRunning per exercise (84)
    workoutMode,          \* useState (89)
    autoRest,             \* useState (90)
    restSeconds,          \* useState (91)
    isResting,            \* useState (92)
    restTimer,            \* useState (93)
    intervalsRef,         \* useRef: per exercise, its scheduled interval or null (95)
    restIntervalRef,      \* useRef: the rest interval the ref holds, or null (98)
    leakedRestIntervals,  \* rest intervals still scheduled that no ref holds
    restTicks,            \* history: ticks of the rest begun last, counted while resting
    crashed,              \* an exception escaped an effect (React unmounts the tree)
    startupItem,          \* history: what localStorage held under STORAGE_KEY at startup
    lastOp                \* history: the command or callback that produced this state

vars == <<day, data, currentExerciseIndex, timers, running, workoutMode,
          autoRest, restSeconds, isResting, restTimer, intervalsRef,
          restIntervalRef, leakedRestIntervals, restTicks, crashed,
          startupItem, lastOp>>

---------------------------------------------------------------------------
(* The catalog.  The source has 18 exercises of 30..120 seconds; the model *)
(* keeps the order and the "duration in whole seconds" of a catalog of     *)
(* three, one of which takes more than one tick.                           *)
duration == <<2, 1, 1>>

NumExercises == Len(duration)

Exercises == 0 .. (NumExercises - 1)

LastIndex == NumExercises - 1

\* exercise.duration || 30 : every catalog entry has a positive duration
Dur(e) == duration[e + 1]

\* Days are 1..30 in the source; MaxDay stands for 30.
MaxDay == 2

Days == 1 .. MaxDay

\* useState(20) for restSeconds, scaled to the catalog above.
DefaultRestSeconds == 2

\* null in intervalsRef / restIntervalRef
NoInterval == 0

Min(a, b) == IF a < b THEN a ELSE b

Max(a, b) == IF a > b THEN a ELSE b

---------------------------------------------------------------------------
(* The component's state as one record, so that the handlers and the       *)
(* effect compose as functions.                                            *)
State ==
    [ day |-> day, data |-> data,
      currentExerciseIndex |-> currentExerciseIndex,
      timers |-> timers, running |-> running, workoutMode |-> workoutMode,
      autoRest |-> autoRest, restSeconds |-> restSeconds,
      isResting |-> isResting, restTimer |-> restTimer,
      intervalsRef |-> intervalsRef, restIntervalRef |-> restIntervalRef,
      leakedRestIntervals |-> leakedRestIntervals, restTicks |-> restTicks,
      crashed |-> crashed ]

Commit(s, op) ==
    /\ day' = s.day
    /\ data' = s.data
    /\ currentExerciseIndex' = s.currentExerciseIndex
    /\ timers' = s.timers
    /\ running' = s.running
    /\ workoutMode' = s.workoutMode
    /\ autoRest' = s.autoRest
    /\ restSeconds' = s.restSeconds
    /\ isResting' = s.isResting
    /\ restTimer' = s.restTimer
    /\ intervalsRef' = s.intervalsRef
    /\ restIntervalRef' = s.restIntervalRef
    /\ leakedRestIntervals' = s.leakedRestIntervals
    /\ restTicks' = s.restTicks
    /\ crashed' = s.crashed
    /\ startupItem' = startupItem
    /\ lastOp' = op

\* !!data[d]?.[e] : an absent record or key reads as false
Flag(dt, d, e) == d \in DOMAIN dt /\ dt[d][e]

\* prevData[d] ? { ...prevData[d] } : {}
DayData(dt, d) == IF d \in DOMAIN dt THEN dt[d] ELSE [e \in Exercises |-> FALSE]

\* { ...prev, [d]: dayData }
PutDay(dt, d, dayData) ==
    [x \in (DOMAIN dt) \cup {d} |-> IF x = d THEN dayData ELSE dt[x]]

\* setData in the interval callback: dayData[name] = true
SetComplete(dt, d, e) == PutDay(dt, d, [DayData(dt, d) EXCEPT ![e] = TRUE])

---------------------------------------------------------------------------
(* startIntervalFor, as called from a render whose `day` is d.             *)
StartIntervalFor(s, e, d) ==
    IF s.intervalsRef[e] # NoInterval
    THEN s
    ELSE [s EXCEPT !.intervalsRef[e] = d, !.running[e] = TRUE]

StopIntervalFor(s, e) ==
    [s EXCEPT !.intervalsRef[e] = NoInterval, !.running[e] = FALSE]

(* The rest branch of the effect: the new interval is stored in the ref    *)
(* without clearing the one the ref held, which stays scheduled.           *)
StartRest(s) ==
    [s EXCEPT !.isResting = TRUE,
              !.restTimer = s.restSeconds,
              !.restTicks = 0,
              !.leakedRestIntervals =
                  IF s.restIntervalRef # NoInterval
                  THEN @ \cup {s.restIntervalRef} ELSE @,
              !.restIntervalRef = s.day]

(* The auto-advance effect.  It runs after every render in which timers,   *)
(* currentExerciseIndex, autoRest or restSeconds changed; when it changes  *)
(* currentExerciseIndex it runs again on the next render.                  *)
RECURSIVE AutoAdvance(_)
AutoAdvance(s) ==
    LET name == s.currentExerciseIndex IN
    IF s.timers[name] >= Dur(name)
    THEN LET st == StopIntervalFor(s, name) IN
         IF st.autoRest /\ name < LastIndex
         THEN StartRest(st)
         ELSE IF name < LastIndex
              THEN AutoAdvance([st EXCEPT !.currentExerciseIndex = @ + 1])
              ELSE st
    ELSE s

---------------------------------------------------------------------------
(* Startup.  DefaultState is what the useState / useRef initialisers give. *)
DefaultState ==
    [ day |-> 1, data |-> << >>,
      currentExerciseIndex |-> 0,
      timers |-> [e \in Exercises |-> 0],
      running |-> [e \in Exercises |-> FALSE], workoutMode |-> FALSE,
      autoRest |-> TRUE, restSeconds |-> DefaultRestSeconds,
      isResting |-> FALSE, restTimer |-> 0,
      intervalsRef |-> [e \in Exercises |-> NoInterval],
      restIntervalRef |-> NoInterval,
      leakedRestIntervals |-> {}, restTicks |-> 0,
      crashed |-> FALSE ]

\* The payload the persist effect writes: { data, timers, running, autoRest,
\* restSeconds }.
Payload(s) ==
    [ data |-> s.data, timers |-> s.timers, running |-> s.running,
      autoRest |-> s.autoRest, restSeconds |-> s.restSeconds ]

(* What localStorage.getItem(STORAGE_KEY) can return at startup, by the way *)
(* the load effect treats it:                                              *)
(*   "missing"   null, the key was never written                           *)
(*   "empty"     the empty string, which is falsy                          *)
(*   "malformed" text on which JSON.parse throws                           *)
(*   "null"      the JSON text null: it parses, and parsed.data throws     *)
(*   "snapshot"  JSON.stringify of a payload, which parses to that payload *)
(* The payload field only means something for a "snapshot".                *)
ItemKinds == {"missing", "empty", "malformed", "null", "snapshot"}

NoSnapshot(kind) == [kind |-> kind, payload |-> Payload(DefaultState)]

Snapshot(p) == [kind |-> "snapshot", payload |-> p]

\* { ...t, ...parsed.timers } and { ...r, ...parsed.running }
Merge(old, new) ==
    [e \in Exercises |-> IF e \in DOMAIN new THEN new[e] ELSE old[e]]

(* The body of the load effect's try block, with `threw` telling whether   *)
(* an exception left it (before any setter ran: JSON.parse and the read of *)
(* parsed.data come first).                                                *)
TryLoad(s, item) ==
    CASE item.kind \in {"missing", "empty"} -> [state |-> s, threw |-> FALSE]
      [] item.kind \in {"malformed", "null"} -> [state |-> s, threw |-> TRUE]
      [] item.kind = "snapshot" ->
            LET p == item.payload IN
            [ state |-> [s EXCEPT !.data = p.data,
                                  !.timers = Merge(@, p.timers),
                                  !.running = Merge(@, p.running),
                                  !.autoRest = p.autoRest,
                                  !.restSeconds = p.restSeconds],
              threw |-> FALSE ]

\* try { ... } catch { }: the exception is swallowed
LoadUncaught(s, item) ==
    LET r == TryLoad(s, item) IN [r.state EXCEPT !.crashed = r.threw]

Load(s, item) == TryLoad(s, item).state

(* Mount: the load effect, then the auto-advance effect on the state the   *)
(* loaded values were rendered with (on the initialisers alone it does     *)
(* nothing, their timers being 0).                                         *)
StartFrom(item) == AutoAdvance(Load(DefaultState, item))

InitFrom(item) ==
    /\ startupItem = item
    /\ lastOp = "init"
    /\ LET s == StartFrom(item) IN
         /\ day = s.day
         /\ data = s.data
         /\ currentExerciseIndex = s.currentExerciseIndex
         /\ timers = s.timers
         /\ running = s.running
         /\ workoutMode = s.workoutMode
         /\ autoRest = s.autoRest
         /\ restSeconds = s.restSeconds
         /\ isResting = s.isResting
         /\ restTimer = s.restTimer
         /\ intervalsRef = s.intervalsRef
         /\ restIntervalRef = s.restIntervalRef
         /\ leakedRestIntervals = s.leakedRestIntervals
         /\ restTicks = s.restTicks
         /\ crashed = s.crashed

(* Initial state: the useState / useRef initialisers, with nothing in      *)
(* localStorage.  The mount run of the effect finds timers = 0 and does    *)
(* nothing.                                                                *)
Init ==
    /\ day = 1
    /\ data = << >>
    /\ currentExerciseIndex = 0
    /\ timers = [e \in Exercises |-> 0]
    /\ running = [e \in Exercises |-> FALSE]
    /\ workoutMode = FALSE
    /\ autoRest = TRUE
    /\ restSeconds = DefaultRestSeconds
    /\ isResting = FALSE
    /\ restTimer = 0
    /\ intervalsRef = [e \in Exercises |-> NoInterval]
    /\ restIntervalRef = NoInterval
    /\ leakedRestIntervals = {}
    /\ restTicks = 0
    /\ crashed = FALSE
    /\ startupItem = NoSnapshot("missing")
    /\ lastOp = "init"

\* The play/pause and reset buttons of the guided view do nothing while
\* resting (App.tsx 380, 385); those of the main view always act (423, 427).
TimerButtonsActive == workoutMode => ~isResting

(* handleTimerToggle(currentExercise), pause branch *)
HandlePause(s) == StopIntervalFor(s, s.currentExerciseIndex)

(* handleTimerToggle(currentExercise), start branch; setTimers, when it is *)
(* called, re-runs the effect.                                             *)
HandleStartNoReset(s) == StartIntervalFor(s, s.currentExerciseIndex, s.day)

HandleStart(s) ==
    LET e == s.currentExerciseIndex IN
    IF s.timers[e] >= Dur(e)
    THEN AutoAdvance(StartIntervalFor([s EXCEPT !.timers[e] = 0], e, s.day))
    ELSE StartIntervalFor(s, e, s.day)

Pause ==
    /\ TimerButtonsActive
    /\ running[currentExerciseIndex]
    /\ Commit(HandlePause(State), "Pause")

Start ==
    /\ TimerButtonsActive
    /\ ~running[currentExerciseIndex]
    /\ Commit(HandleStart(State), IF timers[currentExerciseIndex] >= Dur(currentExerciseIndex)
                                  THEN "Restart" ELSE "Start")

(* handleResetTimer(currentExercise) *)
\* handleResetTimer without its stopIntervalFor
HandleResetTimerRunning(s) ==
    AutoAdvance([s EXCEPT !.timers[s.currentExerciseIndex] = 0])

HandleResetTimer(s) ==
    LET e == s.currentExerciseIndex IN
    AutoAdvance([StopIntervalFor(s, e) EXCEPT !.timers[e] = 0])

Reset ==
    /\ TimerButtonsActive
    /\ Commit(HandleResetTimer(State), "Reset")

(* handlePrev: only the guided view has the button *)
HandlePrev(s) ==
    AutoAdvance([StopIntervalFor(s, s.currentExerciseIndex)
                    EXCEPT !.currentExerciseIndex = @ - 1])

\* handlePrev without its test currentExerciseIndex > 0: the render that
\* follows has no currentExercise to read.
PrevUnguarded ==
    /\ workoutMode
    /\ Commit(IF currentExerciseIndex > 0
              THEN HandlePrev(State)
              ELSE [StopIntervalFor(State, currentExerciseIndex)
                       EXCEPT !.currentExerciseIndex = @ - 1,
                              !.crashed = TRUE], "Prev")

Prev ==
    /\ workoutMode
    /\ currentExerciseIndex > 0
    /\ Commit(HandlePrev(State), "Prev")

(* handleNext: both views *)
HandleNext(s) ==
    AutoAdvance([StopIntervalFor(s, s.currentExerciseIndex)
                    EXCEPT !.currentExerciseIndex = @ + 1])

NextExercise ==
    /\ currentExerciseIndex < LastIndex
    /\ Commit(HandleNext(State), "NextExercise")

(* checklist item onClick: setCurrentExerciseIndex(idx).  Setting the      *)
(* index it already has changes nothing and triggers no render.            *)
HandleSelect(s, idx) == AutoAdvance([s EXCEPT !.currentExerciseIndex = idx])

SelectExercise(idx) ==
    /\ ~workoutMode
    /\ idx # currentExerciseIndex
    /\ Commit(HandleSelect(State, idx), "SelectExercise")

(* Auto-rest switch: setAutoRest(!!v); autoRest is a dependency of the     *)
(* effect.                                                                 *)
HandleAutoRest(s) == AutoAdvance([s EXCEPT !.autoRest = ~@])

ToggleAutoRest ==
    /\ ~workoutMode
    /\ Commit(HandleAutoRest(State), "ToggleAutoRest")

StartGuidedWorkout ==
    /\ ~workoutMode
    /\ Commit([State EXCEPT !.workoutMode = TRUE], "StartGuidedWorkout")

RECURSIVE StopAll(_, _)
StopAll(s, todo) ==
    IF todo = {} THEN s
    ELSE LET e == CHOOSE x \in todo : TRUE IN
         StopAll(StopIntervalFor(s, e), todo \ {e})

(* Exit Workout onClick *)
HandleExit(s) ==
    [StopAll(s, Exercises) EXCEPT !.restIntervalRef = NoInterval,
                                  !.isResting = FALSE,
                                  !.workoutMode = FALSE]

ExitWorkout ==
    /\ workoutMode
    /\ Commit(HandleExit(State), "ExitWorkout")

---------------------------------------------------------------------------
(* The callback of exercise e's interval, created in a render whose day    *)
(* was d = intervalsRef[e].                                                *)
\* The interval callback storing elapsed as it is, without the cap at the
\* duration.
TickCallbackUncapped(s, e, d) ==
    LET elapsed  == s.timers[e] + 1
        finished == elapsed >= Dur(e)
    IN  AutoAdvance(
          [s EXCEPT !.timers[e] = elapsed,
                    !.data = IF finished THEN SetComplete(@, d, e) ELSE @])

TickCallback(s, e, d) ==
    LET elapsed  == s.timers[e] + 1
        finished == elapsed >= Dur(e)
    IN  AutoAdvance(
          [s EXCEPT !.timers[e] = IF finished THEN Dur(e) ELSE elapsed,
                    !.data = IF finished THEN SetComplete(@, d, e) ELSE @])

ExerciseTick(e) ==
    /\ intervalsRef[e] # NoInterval
    /\ Commit(TickCallback(State, e, intervalsRef[e]),
              IF timers[e] >= Dur(e) THEN "LateTick" ELSE "ExerciseTick")

(* RestCallback with the expiry test off by one (r <= 0 for r <= 1): the   *)
(* countdown would take one tick more than restSeconds.                    *)
RestCallbackLate(s, d) ==
    IF s.restTimer <= 0
    THEN LET nextIdx == Min(s.currentExerciseIndex + 1, LastIndex)
             ended == [s EXCEPT !.restIntervalRef = NoInterval,
                                !.isResting = FALSE,
                                !.restTimer = 0,
                                !.restTicks = IF s.isResting THEN @ + 1 ELSE @,
                                !.timers[nextIdx] = 0,
                                !.currentExerciseIndex = nextIdx]
         IN  AutoAdvance(StartIntervalFor(ended, nextIdx, d))
    ELSE [s EXCEPT !.restTimer = @ - 1,
                   !.restTicks = IF s.isResting THEN @ + 1 ELSE @]

\* The rest callback without its startIntervalFor(next): the rest ends on
\* the next exercise with no clock scheduled.
RestCallbackNoStart(s, d) ==
    IF s.restTimer <= 1
    THEN LET nextIdx == Min(s.currentExerciseIndex + 1, LastIndex)
         IN  AutoAdvance([s EXCEPT !.restIntervalRef = NoInterval,
                                   !.isResting = FALSE,
                                   !.restTimer = 0,
                                   !.restTicks = IF s.isResting THEN @ + 1 ELSE @,
                                   !.timers[nextIdx] = 0,
                                   !.currentExerciseIndex = nextIdx])
    ELSE [s EXCEPT !.restTimer = @ - 1,
                   !.restTicks = IF s.isResting THEN @ + 1 ELSE @]

(* The callback of a rest interval created by an effect run whose day was  *)
(* d.  It clears whatever interval restIntervalRef holds at that moment.   *)
RestCallback(s, d) ==
    IF s.restTimer <= 1
    THEN LET nextIdx == Min(s.currentExerciseIndex + 1, LastIndex)
             ended == [s EXCEPT !.restIntervalRef = NoInterval,
                                !.isResting = FALSE,
                                !.restTimer = 0,
                                !.restTicks = IF s.isResting THEN @ + 1 ELSE @,
                                !.timers[nextIdx] = 0,
                                !.currentExerciseIndex = nextIdx]
         IN  AutoAdvance(StartIntervalFor(ended, nextIdx, d))
    ELSE [s EXCEPT !.restTimer = @ - 1,
                   !.restTicks = IF s.isResting THEN @ + 1 ELSE @]

RestTick ==
    /\ restIntervalRef # NoInterval
    /\ Commit(RestCallback(State, restIntervalRef), "RestTick")

LeakedRestTick(d) ==
    /\ d \in leakedRestIntervals
    /\ Commit(RestCallback(State, d), "LeakedRestTick")

---------------------------------------------------------------------------
(* Progress store commands of the main view *)
\* toggleComplete that marks instead of flipping: dayData[exercise] = true
HandleMarkComplete(s, e) == [s EXCEPT !.data = SetComplete(@, s.day, e)]

HandleToggleComplete(s, e) ==
    [s EXCEPT !.data = PutDay(@, s.day, [DayData(@, s.day) EXCEPT ![e] = ~@])]

ToggleComplete(e) ==
    /\ ~workoutMode
    /\ Commit(HandleToggleComplete(State, e), "ToggleComplete")

\* resetDay that empties the whole store: setData({})
ResetAllDays(s, d) == [s EXCEPT !.data = << >>]

(* resetDay(day) *)
ResetDay(s, d) == [s EXCEPT !.data = [x \in (DOMAIN @) \ {d} |-> @[x]]]

ClearDay ==
    /\ ~workoutMode
    /\ Commit(ResetDay(State, day), "ClearDay")

(* Prev Day, Next Day, history grid *)
SetDay(s, d) == [s EXCEPT !.day = d]

PrevDay ==
    /\ ~workoutMode
    /\ day > 1
    /\ Commit(SetDay(State, Max(1, day - 1)), "PrevDay")

NextDay ==
    /\ ~workoutMode
    /\ day < MaxDay
    /\ Commit(SetDay(State, Min(MaxDay, day + 1)), "NextDay")

SelectDay(d) ==
    /\ ~workoutMode
    /\ d # day
    /\ Commit(SetDay(State, d), "SelectDay")

(* A session on one selected day: every command of both views and every    *)
(* interval callback, except the three that change `day`.  The sequencer   *)
(* reads `day` only to capture it in a new interval's closure and never    *)
(* reads `data`, so day changes do not alter what the sequencer does.      *)
Next ==
    \/ Start
    \/ Pause
    \/ Reset
    \/ Prev
    \/ NextExercise
    \/ \E idx \in Exercises : SelectExercise(idx)
    \/ ToggleAutoRest
    \/ StartGuidedWorkout
    \/ ExitWorkout
    \/ \E e \in Exercises : ExerciseTick(e)
    \/ RestTick
    \/ \E d \in Days : LeakedRestTick(d)
    \/ \E e \in Exercises : ToggleComplete(e)
    \/ ClearDay

Spec == Init /\ [][Next]_vars

(* A guided workout: the user enters the guided view from the initial      *)
(* state and uses only its buttons (play/pause, reset, Prev, Next, Exit    *)
(* Workout, and Start Guided Workout to come back in).  Every behaviour of *)
(* SpecGuided is a behaviour of the component.                             *)
NextGuided ==
    \/ StartGuidedWorkout
    \/ workoutMode /\ Start
    \/ workoutMode /\ Pause
    \/ workoutMode /\ Reset
    \/ Prev
    \/ workoutMode /\ NextExercise
    \/ ExitWorkout
    \/ \E e \in Exercises : ExerciseTick(e)
    \/ RestTick
    \/ \E d \in Days : LeakedRestTick(d)

SpecGuided == Init /\ [][NextGuided]_vars

(* A session in the main view (the only view with the day buttons) that    *)
(* walks the catalog with the Next button while the selected day changes.  *)
(* Every behaviour of SpecDays is a behaviour of the component.            *)
NextDays ==
    \/ Start
    \/ Pause
    \/ Reset
    \/ NextExercise
    \/ ToggleAutoRest
    \/ \E e \in Exercises : ExerciseTick(e)
    \/ RestTick
    \/ \E d \in Days : LeakedRestTick(d)
    \/ PrevDay
    \/ NextDay
    \/ \E d \in Days : SelectDay(d)

SpecDays == Init /\ [][NextDays]_vars

---------------------------------------------------------------------------
(* Derived statistics: the helpers every render evaluates on `data` and    *)
(* `day`.                                                                  *)

\* exercises.reduce((acc, ex) => (dayData[ex.name] ? acc + 1 : acc), 0),
\* over the first n exercises
RECURSIVE CountFirst(_, _)
CountFirst(dayData, n) ==
    IF n = 0
    THEN 0
    ELSE CountFirst(dayData, n - 1) + (IF dayData[n - 1] THEN 1 ELSE 0)

\* dayCompletionCount(d): data[d] || {} read with every flag absent
DayCompletionCount(dt, d) == CountFirst(DayData(dt, d), NumExercises)

\* Math.floor in place of Math.round: the integer part of p / q
MathTrunc(p, q) == p \div q

\* Math.round(p / q) for p >= 0, q > 0: the nearest integer, a half going up
MathRound(p, q) == (2 * p + q) \div (2 * q)

\* Math.round((count / exercises.length) * 100)
PercentOf(count, n) == MathRound(count * 100, n)

\* exercises.length of the source's catalog
SourceCatalogSize == 18

\* percentComplete(d)
PercentComplete(dt, d) == PercentOf(DayCompletionCount(dt, d), NumExercises)

\* The day numbers of the program: the history grid has 30 buttons and
\* makeWeeklyData caps a week's end at 30.
ProgramDays == 30

\* makeWeeklyData: for (let w = 0; w < 4; w++)
NumWeeks == 4

\* start = w * 7 + 1
DaysPerWeek == 7

\* end = Math.min(start + 6, 30)
WeekSpan == 6

WeekStart(w) == w * DaysPerWeek + 1

WeekEnd(w) == Min(WeekStart(w) + WeekSpan, ProgramDays)

\* makeWeeklyData(): the completed count of W1..W4, in that order
MakeWeeklyData(dt) ==
    [i \in 1 .. NumWeeks |->
        Cardinality({d \in WeekStart(i - 1) .. WeekEnd(i - 1) :
                        d \in DOMAIN dt /\ DayCompletionCount(dt, d) > 0})]

\* the loop of computeStreak from day d downward
RECURSIVE StreakFrom(_, _)
StreakFrom(dt, d) ==
    IF d >= 1 /\ d \in DOMAIN dt /\ DayCompletionCount(dt, d) = NumExercises
    THEN 1 + StreakFrom(dt, d - 1)
    ELSE 0

\* computeStreak without its break: every fully complete day up to d counts
ComputeStreakNoBreak(dt, d) ==
    Cardinality({x \in 1 .. d :
                    x \in DOMAIN dt /\ DayCompletionCount(dt, x) = NumExercises})

\* computeStreak(), in a render whose day is d
ComputeStreak(dt, d) == StreakFrom(dt, d)

\* const weeklyData = makeWeeklyData(); const streak = computeStreak();
weeklyData == MakeWeeklyData(data)

streak == ComputeStreak(data, day)

---------------------------------------------------------------------------
(* The progress store on its own: the checklist toggles, Clear Day and the *)
(* three ways of changing the selected day, from the initial state.        *)
NextStore ==
    \/ \E e \in Exercises : ToggleComplete(e)
    \/ ClearDay
    \/ PrevDay
    \/ NextDay
    \/ \E d \in Days : SelectDay(d)

SpecStore == Init /\ [][NextStore]_vars

(* The statistics over a stored history.  The app is opened on a snapshot  *)
(* whose data has records within HistoryWindow consecutive days of the     *)
(* program's 30, each of them empty, partial or full; the user then picks  *)
(* days in the history grid, whose 30 buttons are all modelled here.       *)
HistoryWindow == 4

DayShapes ==
    { [e \in Exercises |-> FALSE], [e \in Exercises |-> e = 0],
      [e \in Exercises |-> TRUE] }

StoredHistories ==
    UNION { UNION { [S -> DayShapes] : S \in SUBSET (a .. (a + HistoryWindow - 1)) }
            : a \in 1 .. (ProgramDays - HistoryWindow + 1) }

InitStats ==
    \E h \in StoredHistories :
        InitFrom(Snapshot([Payload(DefaultState) EXCEPT !.data = h]))

NextStats == \E d \in 1 .. ProgramDays : SelectDay(d)

SpecStats == InitStats /\ [][NextStats]_vars

(* A session that starts on what an earlier session left in localStorage:  *)
(* nothing usable, or the payload of a state of that session (elapsed      *)
(* times up to the durations, at most one running flag set, on an exercise *)
(* below its duration, auto-rest on or off, no record or one of day 1; all *)
(* of them payloads of states Spec reaches); the user then works through   *)
(* the catalog in the main view.                                           *)
StoredPayloads ==
    { p \in { [ data |-> dt, timers |-> tm, running |-> rn, autoRest |-> ar,
                restSeconds |-> DefaultRestSeconds ] :
                dt \in { << >>, SetComplete(<< >>, 1, 0) },
                tm \in [Exercises -> 0 .. Max(Dur(0), Dur(1))],
                rn \in [Exercises -> BOOLEAN],
                ar \in BOOLEAN } :
        /\ \A e \in Exercises : p.timers[e] <= Dur(e)
        /\ \A e \in Exercises : p.running[e] => p.timers[e] < Dur(e)
        /\ Cardinality({e \in Exercises : p.running[e]}) <= 1 }

StartupItems ==
    { NoSnapshot(k) : k \in ItemKinds \ {"snapshot"} }
        \cup { Snapshot(p) : p \in StoredPayloads }

InitLoad == \E item \in StartupItems : InitFrom(item)

NextLoad ==
    \/ Start
    \/ Pause
    \/ Reset
    \/ NextExercise
    \/ \E e \in Exercises : ExerciseTick(e)
    \/ RestTick
    \/ \E d \in Days : LeakedRestTick(d)

SpecLoad == InitLoad /\ [][NextLoad]_vars

(* An unattended guided workout.  While nothing has been started (every    *)
(* elapsed time 0, no clock running) the user prepares in the main view:   *)
(* picks a day, edits its checklist, switches auto-rest; then enters the   *)
(* guided view and presses play on the first exercise.  From then on the   *)
(* only events are the callbacks of the scheduled intervals, and a         *)
(* scheduled setInterval callback fires every second: weak fairness.       *)
Idle == \A e \in Exercises : timers[e] = 0 /\ ~running[e]

NextWorkout ==
    \/ Idle /\ \E e \in Exercises : ToggleComplete(e)
    \/ Idle /\ ClearDay
    \/ Idle /\ PrevDay
    \/ Idle /\ NextDay
    \/ Idle /\ ToggleAutoRest
    \/ Idle /\ StartGuidedWorkout
    \/ Idle /\ workoutMode /\ Start
    \/ \E e \in Exercises : ExerciseTick(e)
    \/ RestTick

SpecWorkout ==
    /\ Init
    /\ [][NextWorkout]_vars
    /\ \A e \in Exercises : WF_vars(ExerciseTick(e))
    /\ WF_vars(RestTick)

---------------------------------------------------------------------------
(* Vocabulary of the properties.                                           *)

\* exercise e's elapsedSeconds reaches its duration on the next tick
ReachesDuration(e) == timers[e] < Dur(e) /\ timers[e] + 1 >= Dur(e)

\* the tick of the current exercise's clock on which it reaches its duration
ExpiryTick(e) ==
    /\ e = currentExerciseIndex
    /\ running[e]
    /\ ReachesDuration(e)
    /\ ExerciseTick(e)

AnyRestTick == RestTick \/ \E d \in Days : LeakedRestTick(d)

ScheduledExerciseClocks == {e \in Exercises : intervalsRef[e] # NoInterval}

ScheduledRestClocks ==
    (IF restIntervalRef # NoInterval THEN 1 ELSE 0)
        + Cardinality(leakedRestIntervals)

\* no rest countdown is started by the step
RestUntouched ==
    /\ restIntervalRef' = restIntervalRef
    /\ leakedRestIntervals' = leakedRestIntervals
    /\ isResting' = isResting
    /\ restTimer' = restTimer

\* no exercise clock is started by the step
NoClockStarted ==
    \A e \in Exercises :
        /\ intervalsRef'[e] # NoInterval => intervalsRef[e] # NoInterval
        /\ running'[e] => running[e]

\* exercise e's clock is stopped after the step
StoppedAfter(e) == ~running'[e] /\ intervalsRef'[e] = NoInterval

\* day d's record is the same before and after the step
RecordUnchanged(d) ==
    /\ (d \in DOMAIN data') = (d \in DOMAIN data)
    /\ d \in DOMAIN data => data'[d] = data[d]

---------------------------------------------------------------------------
(* C1.  On the tick at which the running current exercise reaches its      *)
(* duration, with autoRestEnabled and the exercise not the last, the       *)
(* sequencer enters Resting with restRemainingSeconds = restDurationSeconds,*)
(* currentIndex unchanged, the exercise's clock stopped and the exercise   *)
(* marked complete for the selected day.                                   *)
C1_ExpiryEntersRest ==
    [][\A e \in Exercises :
          (ExpiryTick(e) /\ autoRest /\ e < LastIndex) =>
              /\ isResting'
              /\ restTimer' = restSeconds
              /\ restIntervalRef' # NoInterval
              /\ currentExerciseIndex' = currentExerciseIndex
              /\ StoppedAfter(e)
              /\ Flag(data', day', e)]_vars

(* C2.  While resting, every rest tick with more than one second left      *)
(* decrements restRemainingSeconds by one and changes nothing else of the  *)
(* sequencer; the tick that exhausts it is the restDurationSeconds-th tick *)
(* of that rest, clears isResting, advances currentIndex by exactly one    *)
(* (capped at the last index) and leaves the new current exercise with     *)
(* elapsedSeconds 0 and its clock running.                                 *)
C2_RestCountdown ==
    [][(isResting /\ AnyRestTick) =>
          IF restTimer > 1
          THEN /\ restTimer' = restTimer - 1
               /\ isResting'
               /\ currentExerciseIndex' = currentExerciseIndex
               /\ timers' = timers
               /\ running' = running
          ELSE /\ ~isResting'
               /\ restTicks' = restSeconds
               /\ currentExerciseIndex' = Min(currentExerciseIndex + 1, LastIndex)
               /\ timers'[currentExerciseIndex'] = 0
               /\ running'[currentExerciseIndex']
               /\ intervalsRef'[currentExerciseIndex'] # NoInterval]_vars

\* a rest ran its restSeconds ticks and the next exercise was started at 0
C2_Witness ==
    /\ ~isResting
    /\ restTimer = 0
    /\ restTicks = restSeconds
    /\ currentExerciseIndex = 1
    /\ timers[0] = Dur(0)
    /\ timers[1] = 0
    /\ running[1]
    /\ intervalsRef[1] # NoInterval
    /\ ~running[0]

(* C3.  In every reachable state at most one exercise has a scheduled      *)
(* clock and at most one isRunning flag is true.                           *)
C3_OneExerciseClock ==
    /\ Cardinality(ScheduledExerciseClocks) <= 1
    /\ Cardinality({e \in Exercises : running[e]}) <= 1

(* C4.  In every reachable state at most one rest clock is scheduled.      *)
C4_OneRestClock == ScheduledRestClocks <= 1

(* C5.  Navigating away from the current exercise while its clock runs     *)
(* (next, previous, checklist selection) leaves that exercise not running, *)
(* with no clock scheduled (so it gets no further tick) and with its       *)
(* elapsedSeconds unchanged.                                               *)
C5_NavigationStopsClock ==
    [][(/\ running[currentExerciseIndex]
        /\ \/ NextExercise
           \/ Prev
           \/ \E idx \in Exercises : SelectExercise(idx)) =>
          /\ StoppedAfter(currentExerciseIndex)
          /\ timers'[currentExerciseIndex] = timers[currentExerciseIndex]]_vars

(* C6.  After the exit-guided-mode command no exercise clock and no rest   *)
(* clock is scheduled, every isRunning flag is false and isResting is      *)
(* false (so no tick can happen until the next command).                   *)
C6_ExitCancelsAllClocks ==
    [][ExitWorkout =>
          /\ ScheduledExerciseClocks' = {}
          /\ ScheduledRestClocks' = 0
          /\ \A e \in Exercises : ~running'[e]
          /\ ~isResting']_vars

(* C7.  Manual next from index i ends at min(i+1, N-1) and manual previous *)
(* at max(i-1, 0); the command stops the clock of the exercise left and    *)
(* starts neither an exercise clock nor a rest countdown, whatever the     *)
(* stored elapsedSeconds of the target.                                    *)
C7_ManualNavigation ==
    [][/\ NextExercise =>
            /\ currentExerciseIndex' = Min(currentExerciseIndex + 1, LastIndex)
            /\ StoppedAfter(currentExerciseIndex)
            /\ NoClockStarted
            /\ RestUntouched
       /\ Prev =>
            /\ currentExerciseIndex' = Max(currentExerciseIndex - 1, 0)
            /\ StoppedAfter(currentExerciseIndex)
            /\ NoClockStarted
            /\ RestUntouched]_vars

(* C8.  When the current exercise reaches its duration with autoRest off   *)
(* and it is not the last, currentIndex advances by exactly one, no rest   *)
(* is started and the finished exercise's clock is stopped, whatever the   *)
(* stored elapsedSeconds of the exercises that follow.                     *)
C8_ExpiryAdvancesByOne ==
    [][\A e \in Exercises :
          (ExpiryTick(e) /\ ~autoRest /\ e < LastIndex) =>
              /\ currentExerciseIndex' = currentExerciseIndex + 1
              /\ RestUntouched
              /\ NoClockStarted
              /\ StoppedAfter(e)]_vars

(* C9.  When the last exercise reaches its duration, with autoRest on or   *)
(* off, the sequencer is Paused afterwards: currentIndex stays the last    *)
(* index, isResting is false, no rest clock is scheduled, the exercise's   *)
(* clock is stopped and the exercise is marked complete for the selected   *)
(* day.                                                                    *)
C9_LastExpiryPauses ==
    [][\A e \in Exercises :
          (ExpiryTick(e) /\ e = LastIndex) =>
              /\ currentExerciseIndex' = LastIndex
              /\ ~isResting'
              /\ ScheduledRestClocks' = 0
              /\ StoppedAfter(e)
              /\ Flag(data', day', e)]_vars

(* C10.  When a running exercise reaches its duration, the flag set is the *)
(* one of the day selected at that moment, also when the day was changed   *)
(* after the clock was started, and no other day's record is modified.     *)
C10_ExpiryMarksSelectedDay ==
    [][\A e \in Exercises :
          (running[e] /\ ReachesDuration(e) /\ ExerciseTick(e)) =>
              /\ Flag(data', day, e)
              /\ \A d \in Days \ {day} : RecordUnchanged(d)]_vars

---------------------------------------------------------------------------
\* C11: in every reachable state the current exercise index is a valid
\* catalog position, 0 <= currentExerciseIndex <= catalogSize - 1.
C11_IndexInRange ==
    /\ currentExerciseIndex \in Int
    /\ 0 <= currentExerciseIndex
    /\ currentExerciseIndex <= NumExercises - 1

\* A rest interval has just expired and left the last exercise selected and
\* running: the next index was capped, or was the last one.
C11_Witness ==
    /\ lastOp \in {"RestTick", "LeakedRestTick"}
    /\ ~isResting
    /\ currentExerciseIndex = LastIndex
    /\ running[LastIndex]

\* C12: start on a paused exercise whose elapsed time has reached its
\* duration sets the elapsed time to 0 and then runs the exercise, which is
\* not treated as finished (it stays selected, no rest begins); start on a
\* paused exercise below its duration resumes from the elapsed time it has.
C12_StartRestartsFinished ==
    [][Start =>
        LET e == currentExerciseIndex IN
        /\ ~running[e]
        /\ running'[e]
        /\ intervalsRef'[e] # NoInterval
        /\ timers'[e] = (IF timers[e] >= Dur(e) THEN 0 ELSE timers[e])
        /\ timers'[e] < Dur(e)
        /\ currentExerciseIndex' = e
        /\ RestUntouched
        /\ \A x \in Exercises \ {e} : timers'[x] = timers[x]]_vars

\* Start has just acted on a finished exercise: it is selected, running and
\* at 0, and its completion flag from the earlier run is still set.
C12_Witness ==
    /\ lastOp = "Restart"
    /\ running[currentExerciseIndex]
    /\ timers[currentExerciseIndex] = 0
    /\ Flag(data, day, currentExerciseIndex)

\* C13: reset on the current exercise sets its elapsed time to 0 and stops
\* its clock, and changes neither a completion flag, nor the selected
\* exercise, nor the rest, nor any other exercise's time or clock.
C13_ResetFrame ==
    [][Reset =>
        LET e == currentExerciseIndex IN
        /\ timers'[e] = 0
        /\ StoppedAfter(e)
        /\ data' = data
        /\ currentExerciseIndex' = e
        /\ RestUntouched
        /\ \A x \in Exercises \ {e} :
              /\ timers'[x] = timers[x]
              /\ running'[x] = running[x]
              /\ intervalsRef'[x] = intervalsRef[x]]_vars

\* Reset has just acted on a finished exercise during the rest after it,
\* while another exercise's clock is running.
C13_Witness ==
    /\ lastOp = "Reset"
    /\ timers[currentExerciseIndex] = 0
    /\ ~running[currentExerciseIndex]
    /\ Flag(data, day, currentExerciseIndex)
    /\ isResting
    /\ \E x \in Exercises \ {currentExerciseIndex} : running[x] /\ timers[x] > 0

\* C14: weeklyRollup counts, for each of the four windows 1-7, 8-14, 15-21
\* and 22-30 (which together hold every day of 1..30 exactly once), the days
\* of the window with completionCount > 0; a completion recorded only on
\* day 29 or day 30 gives [0,0,0,1].
C14_WeeklyRollup ==
    LET window == << 1 .. 7, 8 .. 14, 15 .. 21, 22 .. 30 >>
        completedIn(S) ==
            Cardinality({d \in S : \E e \in Exercises : Flag(data, d, e)})
    IN  /\ weeklyData = [i \in 1 .. 4 |-> completedIn(window[i])]
        /\ (\E d \in {29, 30} :
               \A x \in 1 .. 30 : completedIn({x}) > 0 <=> x = d)
           => weeklyData = << 0, 0, 0, 1 >>

\* C15: currentStreak(referenceDay) is the number k of consecutive fully
\* complete days ending at referenceDay: the k days up to referenceDay are
\* fully complete, and the day before them is day 0, has no record, or has a
\* record in which some exercise is false.
C15_CurrentStreak ==
    LET fullyComplete(d) ==
            d \in DOMAIN data /\ \A e \in Exercises : data[d][e]
    IN  /\ streak \in 0 .. day
        /\ \A d \in (day - streak + 1) .. day : fullyComplete(d)
        /\ streak < day => ~fullyComplete(day - streak)

\* The reference day, picked in the history grid, ends three fully complete
\* days that follow a day with a record in which some exercise is false.
C15_Witness ==
    /\ lastOp = "SelectDay"
    /\ streak = 3
    /\ day - 3 \in DOMAIN data
    /\ \E e \in Exercises : ~data[day - 3][e]

\* C16: a toggle of exercise e on the selected day d flips the completion
\* flag of (d, e) and changes the flag of no other (day, exercise) pair, and
\* a second toggle of (d, e) returns every flag to its value before the
\* first.
C16_ToggleTwice ==
    [][\A e \in Exercises :
        ToggleComplete(e) =>
            LET twice == HandleToggleComplete(
                             HandleToggleComplete(State, e), e).data
            IN  /\ Flag(data', day, e) = ~Flag(data, day, e)
                /\ \A d \in Days, x \in Exercises :
                      /\ <<d, x>> # <<day, e>> =>
                             Flag(data', d, x) = Flag(data, d, x)
                      /\ Flag(twice, d, x) = Flag(data, d, x)]_vars

\* A toggle has just acted on the last day and left its record with every
\* flag false (so a flag of that day was set and toggled back), while the
\* first day keeps a flag set.
C16_Witness ==
    /\ lastOp = "ToggleComplete"
    /\ day = MaxDay
    /\ day \in DOMAIN data
    /\ \A e \in Exercises : ~data[day][e]
    /\ \E e \in Exercises : Flag(data, 1, e)

\* C17: clearDay on the selected day d makes completionCount(d) 0 and leaves
\* every other day's record unchanged, and clearing d a second time changes
\* nothing.
C17_ClearDay ==
    [][ClearDay =>
        /\ DayCompletionCount(data', day) = 0
        /\ \A e \in Exercises : ~Flag(data', day, e)
        /\ \A d \in Days \ {day} : RecordUnchanged(d)
        /\ ResetDay(ResetDay(State, day), day).data = data']_vars

\* Clear Day has just acted on the last day while the first day has a
\* fully complete record.
C17_Witness ==
    /\ lastOp = "ClearDay"
    /\ day = MaxDay
    /\ day \notin DOMAIN data
    /\ 1 \in DOMAIN data
    /\ DayCompletionCount(data, 1) = NumExercises

\* C18: for every day d, completionCount(d) is the number of exercises
\* flagged complete on d and lies in [0, catalogSize], and
\* completionPercent(d) lies in [0, 100] and is the integer nearest to
\* 100 * completionCount(d) / catalogSize, a half going up; the same
\* rounding holds for every count of the source's catalog of 18.
C18_CountAndPercent ==
    LET nearest(p, c, n) ==
            /\ p \in 0 .. 100
            /\ 2 * n * p - n <= 200 * c
            /\ 200 * c < 2 * n * p + n
    IN  /\ \A d \in Days :
              LET c == DayCompletionCount(data, d) IN
              /\ c = Cardinality({e \in Exercises : Flag(data, d, e)})
              /\ c \in 0 .. NumExercises
              /\ nearest(PercentComplete(data, d), c, NumExercises)
        /\ \A c \in 0 .. SourceCatalogSize :
              nearest(PercentOf(c, SourceCatalogSize), c, SourceCatalogSize)

\* After a toggle, one day has one exercise of three complete (33%, rounded
\* down) and another has two (67%, rounded up).
C18_Witness ==
    /\ lastOp = "ToggleComplete"
    /\ \E d1, d2 \in Days :
          /\ DayCompletionCount(data, d1) = 1
          /\ PercentComplete(data, d1) = 33
          /\ DayCompletionCount(data, d2) = 2
          /\ PercentComplete(data, d2) = 67

\* C19: when the item found at startup is missing or cannot be parsed, the
\* session starts in the default state (no day records, every elapsed time
\* 0, every running flag false, default auto-rest configuration, nothing
\* scheduled), and no error state is ever reached.
C19_UnusableSnapshot ==
    startupItem.kind # "snapshot" =>
        /\ ~crashed
        /\ lastOp = "init" =>
              /\ State = DefaultState
              /\ data = << >>
              /\ \A e \in Exercises : timers[e] = 0 /\ ~running[e]
              /\ autoRest /\ restSeconds = DefaultRestSeconds

\* The session has just started on text that JSON.parse rejects.
C19_Witness ==
    /\ lastOp = "init"
    /\ startupItem.kind = "malformed"

\* C20: for every exercise, in every reachable state, the running flag is
\* true exactly when a tick callback is scheduled for it - the state right
\* after a snapshot is loaded included.
C20_RunningIffScheduled ==
    \A e \in Exercises : running[e] <=> intervalsRef[e] # NoInterval

\* the guided workout has just been started on the first exercise, every
\* elapsed time 0, auto-rest on
WorkoutStarted ==
    /\ workoutMode
    /\ autoRest
    /\ currentExerciseIndex = 0
    /\ running[0]
    /\ \A e \in Exercises : timers[e] = 0

\* paused on the last exercise, every exercise complete for the selected
\* day, no exercise or rest clock scheduled
WorkoutDone ==
    /\ currentExerciseIndex = LastIndex
    /\ ~isResting
    /\ \A e \in Exercises : ~running[e]
    /\ \A e \in Exercises : Flag(data, day, e)
    /\ ScheduledExerciseClocks = {}
    /\ ScheduledRestClocks = 0

\* C21: a guided workout started on the first exercise with every elapsed
\* time 0 and auto-rest on, left to the one-second ticks alone, eventually
\* is paused on the last exercise with every exercise of the catalog marked
\* complete for the selected day and no exercise or rest clock scheduled.
C21_WorkoutCompletes == WorkoutStarted ~> WorkoutDone

\* The last exercise's expiry tick has just ended a guided workout on the
\* last day: every exercise is at its duration and the last rest ran its
\* restSeconds ticks.
C21_Witness ==
    /\ lastOp = "ExerciseTick"
    /\ workoutMode /\ autoRest
    /\ day = MaxDay
    /\ restTicks = restSeconds
    /\ \A e \in Exercises : timers[e] = Dur(e)
    /\ WorkoutDone

\* C22: in every state reachable from the default state every exercise's
\* elapsed time is between 0 and its duration; a tick of a clock that is
\* still scheduled after its exercise finished does not push it past the
\* duration.
C22_ElapsedWithinDuration ==
    \A e \in Exercises :
        /\ timers[e] \in Int
        /\ 0 <= timers[e]
        /\ timers[e] <= Dur(e)

\* A clock has just ticked on an exercise that was already at its duration,
\* and an exercise at its duration is still scheduled.
C22_Witness ==
    /\ lastOp = "LateTick"
    /\ \E e \in Exercises :
          timers[e] = Dur(e) /\ intervalsRef[e] # NoInterval

====
